---------------------------- MODULE Spec2Model ----------------------------
(***************************************************************************)
(* Model of the two market-data clients of the repository:                 *)
(*   src/birdeye.py      BirdEyeClient     (fetch_prices,                  *)
(*                                          fetch_token_overview)          *)
(*   src/dexscreener.py  DexScreenerClient (fetch_prices_dex,              *)
(*                                          fetch_token_overview,          *)
(*                                          find_largest_pool_with_sol)    *)
(*                                                                         *)
(* A call is a short state machine: the part of the method before the      *)
(* network request (argument validation), the request itself (the provider *)
(* picks any response), and the part after it (status check, decoding).    *)
(* Python strings are sequences of one-character strings, JSON objects     *)
(* (dict) are functions from keys to values, JSON arrays are sequences.    *)
(***************************************************************************)
EXTENDS Integers, Sequences, FiniteSets, TLC

\* Longest address list a caller passes to a bulk method.
MaxAddrs == 2
\* Longest `pairs` array in a DexScreener response.
MaxPairs == 2
\* Longest pair list handed to find_largest_pool_with_sol.
MaxPool == 3

(***************************************************************************)
(* Strings                                                                 *)
(***************************************************************************)
SOL_MINT ==
  <<"S","o","1","1","1","1","1","1","1","1","1","1","1","1","1","1","1","1",
    "1","1","1","1","1","1","1","1","1","1","1","1","1","1","1","1","1","1",
    "1","1","1","1","1","1","2">>

\* Two token mints (valid addresses), and three strings that are not addresses.
USDC ==
  <<"E","P","j","F","W","d","d","5","A","u","f","q","S","S","q","e","M","2",
    "q","N","1","x","z","y","b","a","p","C","8","G","4","w","E","G","G","k",
    "Z","w","y","T","D","t","1","v">>
USDT ==
  <<"E","s","9","v","M","F","r","z","a","C","E","R","m","J","f","r","F","4",
    "H","2","F","Y","D","4","K","C","o","N","k","Y","1","1","M","c","C","e",
    "8","B","e","n","w","N","Y","B">>
TOKEN1 == <<"T","O","K","E","N","1">>
SHORT == <<"a","b","c">>
EMPTY == <<>>

\* The strings callers pass as token addresses.
Addresses == {USDC, USDT, TOKEN1, SHORT, EMPTY}

(***************************************************************************)
(* helper.is_solana_address: base58 text that decodes to exactly 32 bytes  *)
(***************************************************************************)
B58Alphabet ==
  <<"1","2","3","4","5","6","7","8","9","A","B","C","D","E","F","G","H","J",
    "K","L","M","N","P","Q","R","S","T","U","V","W","X","Y","Z","a","b","c",
    "d","e","f","g","h","i","j","k","m","n","o","p","q","r","s","t","u","v",
    "w","x","y","z">>

PUBKEY_BYTES == 32

B58Chars == {B58Alphabet[i] : i \in 1..Len(B58Alphabet)}

\* The digit value (0..57) of a base58 character.
B58Digit(c) == (CHOOSE i \in 1..Len(B58Alphabet) : B58Alphabet[i] = c) - 1

\* bytes * m + c on a little-endian byte sequence without leading zero bytes.
RECURSIVE MulAdd(_, _, _)
MulAdd(bytes, m, c) ==
  IF bytes = <<>>
  THEN IF c = 0 THEN <<>> ELSE <<c % 256>> \o MulAdd(<<>>, m, c \div 256)
  ELSE LET v == Head(bytes) * m + c
       IN  <<v % 256>> \o MulAdd(Tail(bytes), m, v \div 256)

\* The number a base58 text denotes, as little-endian bytes.
RECURSIVE B58Number(_, _)
B58Number(s, acc) ==
  IF s = <<>> THEN acc
  ELSE B58Number(Tail(s), MulAdd(acc, Len(B58Alphabet), B58Digit(Head(s))))

\* Leading "1" characters: each stands for one leading zero byte.
RECURSIVE LeadingOnes(_)
LeadingOnes(s) ==
  IF s = <<>> \/ Head(s) # "1" THEN 0 ELSE 1 + LeadingOnes(Tail(s))

\* Length in bytes of the decoded text.
B58DecodedLen(s) == LeadingOnes(s) + Len(B58Number(s, <<>>))

is_solana_address(s) ==
  /\ \A i \in 1..Len(s) : s[i] \in B58Chars
  /\ B58DecodedLen(s) = PUBKEY_BYTES

(***************************************************************************)
(* decimal.Decimal                                                         *)
(***************************************************************************)
DecDigits == <<"0","1","2","3","4","5","6","7","8","9">>

DigitValue(c) == (CHOOSE i \in 1..10 : DecDigits[i] = c) - 1

\* Index of the decimal point of a numeric string, 0 when there is none.
PointAt(s) ==
  IF \E i \in 1..Len(s) : s[i] = "."
  THEN CHOOSE i \in 1..Len(s) : s[i] = "." ELSE 0

\* The integer written by the digits of s, the point skipped.
RECURSIVE Coefficient(_, _)
Coefficient(s, acc) ==
  IF s = <<>> THEN acc
  ELSE IF Head(s) = "." THEN Coefficient(Tail(s), acc)
  ELSE Coefficient(Tail(s), acc * 10 + DigitValue(Head(s)))

\* Decimal(str): the exact value coef * 10^exp, no binary rounding.
Decimal(s) ==
  [coef |-> Coefficient(s, 0),
   exp  |-> IF PointAt(s) = 0 THEN 0 ELSE 0 - (Len(s) - PointAt(s))]

\* Decimal(int), for a JSON number.
DecimalOfInt(n) == [coef |-> n, exp |-> 0]

\* PriceInfo(value, liquidity), a named tuple.
PriceInfo(value, liquidity) == [value |-> value, liquidity |-> liquidity]

(***************************************************************************)
(* dict                                                                    *)
(***************************************************************************)
EmptyDict == [k \in {} |-> k]

\* d.get(k, default)
Get(d, k, default) == IF k \in DOMAIN d THEN d[k] ELSE default

\* d[k] = v
Put(d, k, v) == [x \in DOMAIN d \cup {k} |-> IF x = k THEN v ELSE d[x]]


(***************************************************************************)
(* Lists of at most n elements of S                                        *)
(***************************************************************************)
SeqsUpTo(S, n) == UNION {[1..k -> S] : k \in 0..n}

(***************************************************************************)
(* State of one call                                                       *)
(***************************************************************************)
VARIABLES
  method,           \* the method being called, "None" between calls
  pc,               \* "idle", "request", "response", "returned", "raised"
  token_addresses,  \* argument of the bulk methods
  address,          \* argument of the single-address methods and the pool search
  token_pairs,      \* argument of find_largest_pool_with_sol
  response,         \* the provider's response, once the request was made
  sent,             \* network requests issued by this call
  result,           \* the value returned, when pc = "returned"
  error             \* the exception raised, when pc = "raised"; else "None"

vars == <<method, pc, token_addresses, address, token_pairs, response, sent,
          result, error>>

HTTP_OK == 200

\* Status codes a provider answers with: success, another 2xx, two failures.
Statuses == {HTTP_OK, 204, 404, 500}

NoResponse == [status_code |-> 0, body |-> EmptyDict]

\* What a piece of a method hands back: an exception, or a value.
Raise(e) == [error |-> e, result |-> EmptyDict]
Return(v) == [error |-> "None", result |-> v]

(***************************************************************************)
(* BirdEye responses                                                       *)
(***************************************************************************)
ZERO == <<"0">>
P_1_23 == <<"1",".","2","3">>
P_TINY == <<"0",".","0","0","0","0","0","0","0","0","1","2","3","4">>
L_1000 == <<"1","0","0","0">>

\* Per-token entries of the multi_price payload: empty, complete, one field only.
PriceEntries ==
  {EmptyDict,
   [price |-> P_1_23, liquidity |-> L_1000],
   [price |-> P_TINY],
   [liquidity |-> L_1000]}

\* The `data` payload: entries for any of these tokens (USDT is never priced).
PriceData == UNION {[S -> PriceEntries] : S \in SUBSET {USDC, TOKEN1}}

PriceBodies ==
  {[success |-> TRUE, data |-> d] : d \in PriceData}
    \cup {[success |-> FALSE, data |-> d] :
             d \in {EmptyDict, [a \in {USDC} |-> [price |-> P_1_23, liquidity |-> L_1000]]}}
    \cup {[success |-> TRUE], [data |-> [a \in {USDC} |-> [price |-> P_1_23]]], EmptyDict}

\* TokenOverview's fields (common.TokenOverview).
TokenOverviewFields ==
  {"price", "symbol", "decimals", "lastTradeUnixTime", "liquidity", "supply"}

FullOverview ==
  [price |-> 1, symbol |-> "USDC", decimals |-> 6,
   lastTradeUnixTime |-> 1700000000, liquidity |-> 1000, supply |-> 5000]

OverviewBodies ==
  {[success |-> TRUE, data |-> FullOverview],
   [success |-> TRUE, data |-> [price |-> 1, symbol |-> "USDC"]],
   [success |-> TRUE],
   [success |-> FALSE, data |-> FullOverview],
   [data |-> FullOverview],
   EmptyDict}

BirdEyeBodies(m) ==
  IF m = "BirdEye.fetch_prices" THEN PriceBodies ELSE OverviewBodies

(***************************************************************************)
(* BirdEyeClient.fetch_prices                                              *)
(***************************************************************************)
\* Faulty variant: the empty list is not rejected.
fetch_prices_precheck_none(addrs) == "None"

\* Lines 63-64: the check made before the request.
fetch_prices_precheck(addrs) ==
  IF addrs = <<>> THEN "NoPositionsError" ELSE "None"

\* Faulty variant: every requested address gets an entry.
has_token_data_always(token_data) == TRUE

\* Line 82: `if token_data:`, an absent or empty entry is skipped.
has_token_data(token_data) == token_data # EmptyDict

\* Lines 79-85: the loop over the requested addresses.
RECURSIVE fetch_prices_loop(_, _, _)
fetch_prices_loop(addrs, data, prices) ==
  IF addrs = <<>> THEN prices
  ELSE LET token_address == Head(addrs)
           token_data == Get(Get(data, "data", EmptyDict), token_address, EmptyDict)
       IN  fetch_prices_loop(Tail(addrs), data,
             IF has_token_data(token_data)
             THEN Put(prices, token_address,
                      PriceInfo(Decimal(Get(token_data, "price", ZERO)),
                                Decimal(Get(token_data, "liquidity", ZERO))))
             ELSE prices)

\* Lines 72-87: what the method does with the response.
fetch_prices_decode(addrs, resp) ==
  IF resp.status_code # HTTP_OK THEN Raise("InvalidTokens")
  ELSE IF ~Get(resp.body, "success", FALSE) THEN Raise("InvalidTokens")
  ELSE Return(fetch_prices_loop(addrs, resp.body, EmptyDict))

(***************************************************************************)
(* BirdEyeClient.fetch_token_overview                                      *)
(***************************************************************************)
\* Faulty variant: the address is not validated.
BirdEye_overview_precheck_none(a) == "None"

\* Lines 106-107.
BirdEye_overview_precheck(a) ==
  IF ~is_solana_address(a) THEN "InvalidSolanaAddress" ELSE "None"

\* TokenOverview(**overview_data): the keys must be exactly the fields.
TokenOverview(d) ==
  IF DOMAIN d = TokenOverviewFields THEN Return(d) ELSE Raise("TypeError")

\* Lines 111-119.
BirdEye_overview_decode(resp) ==
  IF resp.status_code # HTTP_OK THEN Raise("InvalidTokens")
  ELSE IF ~Get(resp.body, "success", FALSE) THEN Raise("InvalidTokens")
  ELSE TokenOverview(Get(resp.body, "data", EmptyDict))

(***************************************************************************)
(* Actions: BirdEyeClient                                                  *)
(***************************************************************************)
\* A method starts: its argument is bound, its precheck runs, and it either
\* raises or goes on to the request.
Begin(m, addrs, a, pairs, err) ==
  /\ method' = m
  /\ token_addresses' = addrs
  /\ address' = a
  /\ token_pairs' = pairs
  /\ error' = err
  /\ pc' = IF err = "None" THEN "request" ELSE "raised"
  /\ UNCHANGED <<response, sent, result>>

\* A method ends: it returns the value or raises the exception.
End(out) ==
  /\ pc' = IF out.error = "None" THEN "returned" ELSE "raised"
  /\ error' = out.error
  /\ result' = out.result
  /\ UNCHANGED <<method, token_addresses, address, token_pairs, response, sent>>

BirdEye_fetch_prices ==
  /\ pc = "idle"
  /\ \E addrs \in SeqsUpTo(Addresses, MaxAddrs) :
       Begin("BirdEye.fetch_prices", addrs, EMPTY, <<>>, fetch_prices_precheck(addrs))

BirdEye_fetch_token_overview ==
  /\ pc = "idle"
  /\ \E a \in Addresses :
       Begin("BirdEye.fetch_token_overview", <<>>, a, <<>>, BirdEye_overview_precheck(a))

\* _make_api_call("GET", url): the request goes out, the provider answers.
BirdEye_make_api_call ==
  /\ pc = "request"
  /\ method \in {"BirdEye.fetch_prices", "BirdEye.fetch_token_overview"}
  /\ \E s \in Statuses, b \in BirdEyeBodies(method) :
       response' = [status_code |-> s, body |-> b]
  /\ sent' = sent + 1
  /\ pc' = "response"
  /\ UNCHANGED <<method, token_addresses, address, token_pairs, result, error>>

BirdEye_fetch_prices_response ==
  /\ pc = "response"
  /\ method = "BirdEye.fetch_prices"
  /\ End(fetch_prices_decode(token_addresses, response))

BirdEye_fetch_token_overview_response ==
  /\ pc = "response"
  /\ method = "BirdEye.fetch_token_overview"
  /\ End(BirdEye_overview_decode(response))

\* The caller has the outcome; the client keeps no state between calls.
Finish ==
  /\ pc \in {"returned", "raised"}
  /\ pc' = "idle"
  /\ method' = "None"
  /\ token_addresses' = <<>>
  /\ address' = EMPTY
  /\ token_pairs' = <<>>
  /\ response' = NoResponse
  /\ sent' = 0
  /\ result' = EmptyDict
  /\ error' = "None"

(***************************************************************************)
(* DexScreener responses                                                   *)
(***************************************************************************)
\* Pairs of a /latest/dex/tokens response. The endpoint lists every pair a
\* token trades in, whichever side it is on: SOL_USDC has USDC as its quote.
USDC_SOL ==
  [pairAddress |-> "USDC_SOL",
   baseToken |-> [address |-> USDC, symbol |-> "USDC"],
   quoteToken |-> [address |-> SOL_MINT],
   priceNative |-> P_1_23, priceUsd |-> P_1_23,
   liquidity |-> [usd |-> 1000]]
USDC_USDT ==
  [pairAddress |-> "USDC_USDT",
   baseToken |-> [address |-> USDC, symbol |-> "USDC", decimals |-> 6],
   quoteToken |-> [address |-> USDT],
   priceNative |-> P_TINY,
   liquidity |-> [usd |-> 500], supply |-> 5000]
USDT_SOL ==
  [pairAddress |-> "USDT_SOL",
   baseToken |-> [address |-> USDT, symbol |-> "USDT"],
   quoteToken |-> [address |-> SOL_MINT],
   priceNative |-> L_1000, priceUsd |-> P_TINY,
   liquidity |-> [usd |-> 100], lastTradeUnixTime |-> 1700000000]
SOL_USDC ==
  [pairAddress |-> "SOL_USDC",
   baseToken |-> [address |-> SOL_MINT, symbol |-> "SOL"],
   quoteToken |-> [address |-> USDC],
   priceNative |-> P_1_23, priceUsd |-> L_1000,
   liquidity |-> [usd |-> 900]]
\* Records that lack a field the client indexes.
NO_PRICE ==
  [pairAddress |-> "NO_PRICE",
   baseToken |-> [address |-> USDC],
   quoteToken |-> [address |-> SOL_MINT],
   liquidity |-> [usd |-> 100]]
NO_LIQUIDITY ==
  [pairAddress |-> "NO_LIQUIDITY",
   baseToken |-> [address |-> USDC],
   quoteToken |-> [address |-> SOL_MINT],
   priceNative |-> P_1_23, priceUsd |-> P_1_23]

ApiPairs == {USDC_SOL, USDC_USDT, USDT_SOL, SOL_USDC, NO_PRICE, NO_LIQUIDITY}

DexBodies ==
  {[pairs |-> ps] : ps \in SeqsUpTo(ApiPairs, MaxPairs)} \cup {EmptyDict}

(***************************************************************************)
(* DexScreenerClient: validation                                           *)
(***************************************************************************)
\* Lines 42-45.
validate_token_address(a) ==
  IF a = EMPTY THEN "NoPositionsError"
  ELSE IF ~is_solana_address(a) THEN "InvalidSolanaAddress"
  ELSE "None"

\* Lines 64-65: the first address that fails stops the loop.
RECURSIVE validate_each(_)
validate_each(addrs) ==
  IF addrs = <<>> THEN "None"
  ELSE IF validate_token_address(Head(addrs)) # "None"
       THEN validate_token_address(Head(addrs))
       ELSE validate_each(Tail(addrs))

\* Faulty variant: only the first address of the list is validated.
validate_first_only(addrs) ==
  IF addrs = <<>> THEN "NoPositionsError" ELSE validate_token_address(Head(addrs))

\* Lines 62-65.
validate_token_addresses(addrs) ==
  IF addrs = <<>> THEN "NoPositionsError" ELSE validate_each(addrs)

\* Faulty variant: the status code is not looked at.
validate_response_none(resp) == "None"

\* Lines 81-82.
validate_response(resp) ==
  IF resp.status_code # HTTP_OK THEN "InvalidTokens" ELSE "None"

(***************************************************************************)
(* DexScreenerClient.fetch_prices_dex                                      *)
(***************************************************************************)
\* Faulty variant: the entry of the first pair of a token is kept.
record_price_keep_first(prices_and_liquidity, pair) ==
  IF pair.baseToken.address \in DOMAIN prices_and_liquidity
  THEN prices_and_liquidity
  ELSE Put(prices_and_liquidity, pair.baseToken.address,
           PriceInfo(Decimal(pair.priceNative), DecimalOfInt(pair.liquidity.usd)))

\* Lines 147-151: the pair's entry is stored under its base token, replacing
\* the entry an earlier pair of the same token left.
record_price(prices_and_liquidity, pair) ==
  Put(prices_and_liquidity, pair.baseToken.address,
      PriceInfo(Decimal(pair.priceNative), DecimalOfInt(pair.liquidity.usd)))

\* Lines 145-151: one entry per pair, keyed by the pair's base token.
RECURSIVE fetch_prices_dex_loop(_, _)
fetch_prices_dex_loop(pairs, prices_and_liquidity) ==
  IF pairs = <<>> THEN Return(prices_and_liquidity)
  ELSE LET pair == Head(pairs) IN
       IF "priceNative" \notin DOMAIN pair THEN Raise("KeyError")
       ELSE IF "liquidity" \notin DOMAIN pair THEN Raise("KeyError")
       ELSE IF "usd" \notin DOMAIN pair.liquidity THEN Raise("KeyError")
       ELSE IF "baseToken" \notin DOMAIN pair THEN Raise("KeyError")
       ELSE IF "address" \notin DOMAIN pair.baseToken THEN Raise("KeyError")
       ELSE fetch_prices_dex_loop(Tail(pairs),
                                  record_price(prices_and_liquidity, pair))

\* Lines 126-127 and 144-153.
fetch_prices_dex_decode(resp) ==
  IF validate_response(resp) # "None" THEN Raise(validate_response(resp))
  ELSE IF "pairs" \notin DOMAIN resp.body THEN Raise("KeyError")
  ELSE fetch_prices_dex_loop(resp.body.pairs, EmptyDict)

(***************************************************************************)
(* DexScreenerClient.fetch_token_overview                                  *)
(***************************************************************************)
\* Lines 171-185: the overview built from one pair.
overview_of_pair(pair) ==
  IF "baseToken" \notin DOMAIN pair THEN Raise("KeyError")
  ELSE IF "liquidity" \notin DOMAIN pair THEN Raise("KeyError")
  ELSE IF "usd" \notin DOMAIN pair.liquidity THEN Raise("KeyError")
  ELSE TokenOverview(
         [price |-> Decimal(Get(pair, "priceUsd", ZERO)),
          symbol |-> Get(pair.baseToken, "symbol", ""),
          decimals |-> Get(pair.baseToken, "decimals", 0),
          lastTradeUnixTime |-> Get(pair, "lastTradeUnixTime", 0),
          liquidity |-> DecimalOfInt(pair.liquidity.usd),
          supply |-> Get(pair, "supply", 0)])

\* Line 170: data['pairs'][0], the first pair of the list.
first_pair(pairs) ==
  IF Len(pairs) = 0 THEN Raise("IndexError") ELSE Return(pairs[1])

\* Lines 103-104 and 170-187.
Dex_overview_decode(resp) ==
  IF validate_response(resp) # "None" THEN Raise(validate_response(resp))
  ELSE IF "pairs" \notin DOMAIN resp.body THEN Raise("KeyError")
  ELSE IF first_pair(resp.body.pairs).error # "None"
       THEN first_pair(resp.body.pairs)
       ELSE overview_of_pair(first_pair(resp.body.pairs).result)

(***************************************************************************)
(* Actions: DexScreenerClient                                              *)
(***************************************************************************)
\* fetch_prices_dex -> _call_api_bulk: validation, lines 122-124.
Dex_fetch_prices_dex ==
  /\ pc = "idle"
  /\ \E addrs \in SeqsUpTo(Addresses, MaxAddrs) :
       Begin("Dex.fetch_prices_dex", addrs, EMPTY, <<>>, validate_token_addresses(addrs))

\* fetch_token_overview -> _call_api: validation, lines 100-101.
Dex_fetch_token_overview ==
  /\ pc = "idle"
  /\ \E a \in Addresses :
       Begin("Dex.fetch_token_overview", <<>>, a, <<>>, validate_token_address(a))

\* requests.get(url), lines 102 and 125.
Dex_requests_get ==
  /\ pc = "request"
  /\ method \in {"Dex.fetch_prices_dex", "Dex.fetch_token_overview"}
  /\ \E s \in Statuses, b \in DexBodies :
       response' = [status_code |-> s, body |-> b]
  /\ sent' = sent + 1
  /\ pc' = "response"
  /\ UNCHANGED <<method, token_addresses, address, token_pairs, result, error>>

Dex_fetch_prices_dex_response ==
  /\ pc = "response"
  /\ method = "Dex.fetch_prices_dex"
  /\ End(fetch_prices_dex_decode(response))

Dex_fetch_token_overview_response ==
  /\ pc = "response"
  /\ method = "Dex.fetch_token_overview"
  /\ End(Dex_overview_decode(response))

(***************************************************************************)
(* DexScreenerClient.find_largest_pool_with_sol                            *)
(***************************************************************************)
\* Pair records handed to the search: liquidity in whole USD.
Pool(id, base, quote, usd) ==
  [pairAddress |-> id, baseToken |-> [address |-> base],
   quoteToken |-> [address |-> quote], liquidity |-> [usd |-> usd]]

\* Records that lack the quote token, the liquidity or the base token.
PoolNoQuote(id, base, usd) ==
  [pairAddress |-> id, baseToken |-> [address |-> base],
   liquidity |-> [usd |-> usd]]
PoolNoLiquidity(id, base, quote) ==
  [pairAddress |-> id, baseToken |-> [address |-> base],
   quoteToken |-> [address |-> quote]]
PoolNoBase(id, quote, usd) ==
  [pairAddress |-> id, quoteToken |-> [address |-> quote],
   liquidity |-> [usd |-> usd]]

PoolPairs ==
  {Pool("A", USDC, SOL_MINT, 100),
   Pool("B", USDC, SOL_MINT, 500),
   Pool("C", USDC, SOL_MINT, 500),
   Pool("D", USDC, USDT, 900),
   Pool("E", USDT, SOL_MINT, 900),
   PoolNoQuote("F", USDC, 900),
   PoolNoLiquidity("G", USDC, SOL_MINT),
   PoolNoBase("H", SOL_MINT, 900)}

\* Line 197, left of `and`: entry.get("baseToken", {}).get("address") == address
base_is(entry, a) ==
  LET base_token == Get(entry, "baseToken", EmptyDict)
  IN  "address" \in DOMAIN base_token /\ base_token["address"] = a

\* Line 198: float(entry.get("liquidity", {}).get("usd", 0)). The liquidity is
\* a JSON number in whole USD, which float() converts without rounding.
liquidity_usd_of(entry) == Get(Get(entry, "liquidity", EmptyDict), "usd", 0)

\* Faulty variant: a later pair of equal liquidity replaces the earlier one.
is_larger_or_equal(liquidity_usd, max_liquidity_usd) ==
  liquidity_usd >= max_liquidity_usd

\* Line 199: liquidity_usd > max_liquidity_usd
is_larger(liquidity_usd, max_liquidity_usd) == liquidity_usd > max_liquidity_usd

\* Lines 195-201: the scan, with the best entry so far and its liquidity.
\* entry["quoteToken"]["address"] is only evaluated when the base token
\* matches, and raises KeyError when the key is not there.
RECURSIVE pool_scan(_, _, _, _)
pool_scan(pairs, a, max_entry, max_liquidity_usd) ==
  IF pairs = <<>> THEN Return(max_entry)
  ELSE LET entry == Head(pairs) IN
       IF ~base_is(entry, a)
       THEN pool_scan(Tail(pairs), a, max_entry, max_liquidity_usd)
       ELSE IF "quoteToken" \notin DOMAIN entry THEN Raise("KeyError")
       ELSE IF "address" \notin DOMAIN entry.quoteToken THEN Raise("KeyError")
       ELSE IF entry.quoteToken.address # SOL_MINT
       THEN pool_scan(Tail(pairs), a, max_entry, max_liquidity_usd)
       ELSE IF is_larger(liquidity_usd_of(entry), max_liquidity_usd)
       THEN pool_scan(Tail(pairs), a, entry, liquidity_usd_of(entry))
       ELSE pool_scan(Tail(pairs), a, max_entry, max_liquidity_usd)

\* Lines 191-202.
find_largest_pool_with_sol(pairs, a) == pool_scan(pairs, a, EmptyDict, -1)

\* The search is a static method without a request: it runs in one step.
Dex_find_largest_pool_with_sol ==
  /\ pc = "idle"
  /\ \E pairs \in SeqsUpTo(PoolPairs, MaxPool), a \in {USDC, USDT} :
       LET out == find_largest_pool_with_sol(pairs, a) IN
       /\ method' = "Dex.find_largest_pool_with_sol"
       /\ token_pairs' = pairs
       /\ address' = a
       /\ pc' = IF out.error = "None" THEN "returned" ELSE "raised"
       /\ error' = out.error
       /\ result' = out.result
       /\ UNCHANGED <<token_addresses, response, sent>>

Init ==
  /\ pc = "idle"
  /\ method = "None"
  /\ token_addresses = <<>>
  /\ address = EMPTY
  /\ token_pairs = <<>>
  /\ response = NoResponse
  /\ sent = 0
  /\ result = EmptyDict
  /\ error = "None"

Next ==
  \/ BirdEye_fetch_prices
  \/ BirdEye_fetch_token_overview
  \/ BirdEye_make_api_call
  \/ BirdEye_fetch_prices_response
  \/ BirdEye_fetch_token_overview_response
  \/ Dex_fetch_prices_dex
  \/ Dex_fetch_token_overview
  \/ Dex_requests_get
  \/ Dex_fetch_prices_dex_response
  \/ Dex_fetch_token_overview_response
  \/ Dex_find_largest_pool_with_sol
  \/ Finish

Spec == Init /\ [][Next]_vars

(***************************************************************************)
(* Properties                                                              *)
(***************************************************************************)
Range(seq) == {seq[i] : i \in 1..Len(seq)}

Ended == pc \in {"returned", "raised"}

\* The strings of Addresses that are Solana addresses.
SolanaAddresses == {a \in Addresses : is_solana_address(a)}

\* The requested addresses the BirdEye payload has a non-empty entry for.
PricedIn(body, addrs) ==
  {a \in Range(addrs) :
     /\ "data" \in DOMAIN body
     /\ a \in DOMAIN body.data
     /\ body.data[a] # EmptyDict}

\* C1: BirdEye fetch_prices, on a 200 response with success = true, returns a
\* mapping whose keys are exactly the requested addresses with a non-empty
\* entry in the payload; each maps to the entry's price and liquidity ("0"
\* for an absent field); requested addresses without an entry are left out
\* and nothing is raised.
C1_FetchPricesMapping ==
  (/\ method = "BirdEye.fetch_prices"
   /\ Ended
   /\ sent > 0
   /\ response.status_code = HTTP_OK
   /\ "success" \in DOMAIN response.body
   /\ response.body.success)
  => /\ pc = "returned"
     /\ DOMAIN result = PricedIn(response.body, token_addresses)
     /\ \A a \in DOMAIN result :
          LET entry == response.body.data[a] IN
          /\ result[a].value =
               Decimal(IF "price" \in DOMAIN entry THEN entry.price ELSE ZERO)
          /\ result[a].liquidity =
               Decimal(IF "liquidity" \in DOMAIN entry THEN entry.liquidity ELSE ZERO)

\* Two addresses requested, the payload prices only TOKEN1 at 1.23 / 1000:
\* the mapping has the one entry.
C1_Witness ==
  /\ method = "BirdEye.fetch_prices"
  /\ pc = "returned"
  /\ token_addresses = <<TOKEN1, USDT>>
  /\ response.status_code = HTTP_OK
  /\ response.body =
       [success |-> TRUE,
        data |-> [a \in {TOKEN1} |-> [price |-> P_1_23, liquidity |-> L_1000]]]
  /\ DOMAIN result = {TOKEN1}
  /\ result[TOKEN1] = [value |-> [coef |-> 123, exp |-> -2],
                       liquidity |-> [coef |-> 1000, exp |-> 0]]

\* C2: every key of the mapping fetch_prices_dex returns is one of the
\* addresses the caller requested.
C2_KeysRequested ==
  (method = "Dex.fetch_prices_dex" /\ pc = "returned")
  => DOMAIN result \subseteq Range(token_addresses)

\* C3: a bulk method called with an empty list raises NoPositionsError, has
\* issued no request, and returns no mapping.
C3_EmptyListRejected ==
  (/\ method \in {"BirdEye.fetch_prices", "Dex.fetch_prices_dex"}
   /\ token_addresses = <<>>)
  => /\ pc = "raised"
     /\ error = "NoPositionsError"
     /\ sent = 0
     /\ result = EmptyDict

C3_Witness ==
  /\ method = "Dex.fetch_prices_dex"
  /\ token_addresses = <<>>
  /\ pc = "raised"
  /\ error = "NoPositionsError"
  /\ sent = 0

\* C4: a single-address method called with a non-empty string that is not a
\* Solana address raises InvalidSolanaAddress, and no request was issued
\* before it: the call never reaches the request.
C4_InvalidAddressBeforeRequest ==
  (/\ method \in {"BirdEye.fetch_token_overview", "Dex.fetch_token_overview"}
   /\ address # EMPTY
   /\ address \notin SolanaAddresses)
  => /\ pc = "raised"
     /\ error = "InvalidSolanaAddress"
     /\ sent = 0

C4_Witness ==
  /\ method = "Dex.fetch_token_overview"
  /\ address = SHORT
  /\ pc = "raised"
  /\ error = "InvalidSolanaAddress"
  /\ sent = 0

\* The provider reported failure: a status outside 2xx, or for BirdEye a
\* success flag that is false or missing.
ProviderFailed ==
  \/ response.status_code \notin 200..299
  \/ /\ method \in {"BirdEye.fetch_prices", "BirdEye.fetch_token_overview"}
     /\ ~("success" \in DOMAIN response.body /\ response.body.success)

\* C5: when the provider reported failure the method raises InvalidTokens
\* and returns no value, in all four methods.
C5_ProviderFailureRaises ==
  (Ended /\ sent > 0 /\ ProviderFailed)
  => /\ pc = "raised"
     /\ error = "InvalidTokens"
     /\ result = EmptyDict

\* A 404 that carries a complete list of pairs still gives no mapping.
C5_Witness ==
  /\ method = "Dex.fetch_prices_dex"
  /\ response.status_code = 404
  /\ response.body = [pairs |-> <<USDC_SOL>>]
  /\ pc = "raised"
  /\ error = "InvalidTokens"

\* Positions of the pairs whose base token is `a` and whose quote token is
\* the wrapped-SOL mint.
Matching(pairs, a) ==
  {i \in 1..Len(pairs) :
     /\ "baseToken" \in DOMAIN pairs[i]
     /\ "address" \in DOMAIN pairs[i].baseToken
     /\ pairs[i].baseToken.address = a
     /\ "quoteToken" \in DOMAIN pairs[i]
     /\ "address" \in DOMAIN pairs[i].quoteToken
     /\ pairs[i].quoteToken.address = SOL_MINT}

UsdOf(pair) ==
  IF "liquidity" \in DOMAIN pair /\ "usd" \in DOMAIN pair.liquidity
  THEN pair.liquidity.usd ELSE 0

\* The first position, among the matching ones, of maximum liquidity.
FirstLargest(pairs, a) ==
  CHOOSE i \in Matching(pairs, a) :
    \A j \in Matching(pairs, a) :
      \/ UsdOf(pairs[j]) < UsdOf(pairs[i])
      \/ UsdOf(pairs[j]) = UsdOf(pairs[i]) /\ i <= j

\* C6: find_largest_pool_with_sol returns the pair of maximum USD liquidity
\* among the pairs with base token `address` and quote token SOL_MINT, the
\* first of them when several share the maximum; pairs with another quote
\* token are never returned. On lists whose records all carry a quote token
\* the search always returns.
C6_LargestSolPool ==
  (method = "Dex.find_largest_pool_with_sol")
  => /\ pc = "returned" =>
          result = IF Matching(token_pairs, address) = {} THEN EmptyDict
                   ELSE token_pairs[FirstLargest(token_pairs, address)]
     /\ pc = "raised" =>
          \E i \in 1..Len(token_pairs) : "quoteToken" \notin DOMAIN token_pairs[i]

\* liq 100, liq 500, and liq 900 against another quote token: the liq 500 pair.
C6_Witness ==
  /\ method = "Dex.find_largest_pool_with_sol"
  /\ pc = "returned"
  /\ address = USDC
  /\ token_pairs = <<Pool("A", USDC, SOL_MINT, 100),
                     Pool("B", USDC, SOL_MINT, 500),
                     Pool("D", USDC, USDT, 900)>>
  /\ result = Pool("B", USDC, SOL_MINT, 500)

\* C7: when no pair matches, find_largest_pool_with_sol returns the empty
\* result and does not raise, whatever the records lack.
C7_NoMatchNeverRaises ==
  (/\ method = "Dex.find_largest_pool_with_sol"
   /\ Ended
   /\ Matching(token_pairs, address) = {})
  => /\ pc = "returned"
     /\ result = EmptyDict

\* C8: on a 200 response with an empty pairs list, the DexScreener
\* fetch_token_overview raises NoPairsFoundError, never IndexError.
C8_NoPairsFoundError ==
  (/\ method = "Dex.fetch_token_overview"
   /\ Ended
   /\ sent > 0
   /\ response.status_code = HTTP_OK
   /\ "pairs" \in DOMAIN response.body
   /\ response.body.pairs = <<>>)
  => /\ pc = "raised"
     /\ error = "NoPairsFoundError"

\* Positions of the addresses that are empty or not Solana addresses.
BadAt(addrs) ==
  {i \in 1..Len(addrs) : addrs[i] = EMPTY \/ addrs[i] \notin SolanaAddresses}

FirstBad(addrs) == CHOOSE i \in BadAt(addrs) : \A j \in BadAt(addrs) : i <= j

\* C9: fetch_prices_dex with a list holding an empty or invalid address at
\* any position raises (NoPositionsError for an empty address,
\* InvalidSolanaAddress for an invalid one; the first such address decides)
\* with no request sent; a request is only sent for a list whose addresses
\* have all passed validation.
C9_AllOrNothingValidation ==
  (method = "Dex.fetch_prices_dex")
  => /\ BadAt(token_addresses) # {} =>
          /\ pc = "raised"
          /\ sent = 0
          /\ error = IF token_addresses[FirstBad(token_addresses)] = EMPTY
                     THEN "NoPositionsError" ELSE "InvalidSolanaAddress"
     /\ (sent > 0 \/ pc = "request") =>
          /\ token_addresses # <<>>
          /\ BadAt(token_addresses) = {}

\* The bad address comes after a valid one.
C9_Witness ==
  /\ method = "Dex.fetch_prices_dex"
  /\ token_addresses = <<USDC, TOKEN1>>
  /\ pc = "raised"
  /\ error = "InvalidSolanaAddress"
  /\ sent = 0

\* The last position of the response's pairs with base token k.
LastOf(pairs, k) ==
  CHOOSE i \in 1..Len(pairs) :
    /\ pairs[i].baseToken.address = k
    /\ \A j \in 1..Len(pairs) : pairs[j].baseToken.address = k => j <= i

\* A pair record with every field fetch_prices_dex indexes.
Complete(pair) ==
  /\ {"priceNative", "liquidity", "baseToken"} \subseteq DOMAIN pair
  /\ "usd" \in DOMAIN pair.liquidity
  /\ "address" \in DOMAIN pair.baseToken

\* C10: the mapping fetch_prices_dex returns has one entry per base token
\* of the response's pairs, holding the native price and the USD liquidity
\* of the last pair with that base token; a 200 response of complete pair
\* records always yields the mapping.
C10_LastWriteWins ==
  (method = "Dex.fetch_prices_dex" /\ Ended /\ sent > 0
     /\ response.status_code = HTTP_OK /\ "pairs" \in DOMAIN response.body)
  => LET pairs == response.body.pairs IN
     /\ pc = "raised" => \E i \in 1..Len(pairs) : ~Complete(pairs[i])
     /\ pc = "returned" =>
          /\ DOMAIN result = {pairs[i].baseToken.address : i \in 1..Len(pairs)}
          /\ \A k \in DOMAIN result :
               /\ result[k].value = Decimal(pairs[LastOf(pairs, k)].priceNative)
               /\ result[k].liquidity.coef = pairs[LastOf(pairs, k)].liquidity.usd
               /\ result[k].liquidity.exp = 0

\* Two pairs of USDC, the later one with the smaller liquidity: it is the
\* one kept.
C10_Witness ==
  /\ method = "Dex.fetch_prices_dex"
  /\ pc = "returned"
  /\ response.body = [pairs |-> <<USDC_SOL, USDC_USDT>>]
  /\ DOMAIN result = {USDC}
  /\ result[USDC] = [value |-> [coef |-> 1234, exp |-> -12],
                     liquidity |-> [coef |-> 500, exp |-> 0]]

=============================================================================
